---- MODULE Spec2Model ----
(***************************************************************************)
(* A model of fdn (hobbymarks/ufdn): the name transformation of fdn_f, the *)
(* rename ledger written by fdn_f and read by fdn_rf, the batch loops      *)
(* fdn_fs_post / fdn_rfs_post, the ordering of directories() and the       *)
(* name splitting of the diff presenter.                                   *)
(*                                                                         *)
(* Strings are sequences of one-character strings: "a_b" is <<"a","_","b">>*)
(* An Option is a sequence of length 0 (None) or 1 (Some).                 *)
(***************************************************************************)
EXTENDS Integers, Sequences, FiniteSets, TLC

None == <<>>
Some(x) == <<x>>
IsSome(o) == Len(o) = 1
Unwrap(o) == o[1]

Ok(x) == [ok |-> TRUE, v |-> x, err |-> "none"]
Err(e) == [ok |-> FALSE, v |-> <<>>, err |-> e]

----------------------------------------------------------------------------
(* Characters: byte value (the order of OsStr::cmp) and case folding.      *)

Code(c) ==
  CASE c = " " -> 32 [] c = "-" -> 45 [] c = "." -> 46 [] c = "/" -> 47
    [] c = "A" -> 65 [] c = "_" -> 95 [] c = "a" -> 97 [] c = "b" -> 98
    [] c = "d" -> 100 [] c = "h" -> 104 [] c = "p" -> 112 [] c = "q" -> 113
    [] c = "t" -> 116 [] c = "x" -> 120

Lower(c) == CASE c = "A" -> "a" [] OTHER -> c

StartsWith(s, p) == Len(p) <= Len(s) /\ SubSeq(s, 1, Len(p)) = p
EndsWith(s, p) == Len(p) <= Len(s) /\ SubSeq(s, Len(s) - Len(p) + 1, Len(s)) = p
Drop(s, n) == SubSeq(s, n + 1, Len(s))

(* str::replace(from, to): every non-overlapping match, leftmost first; an  *)
(* empty pattern matches at every character boundary.                       *)
RECURSIVE Interleave(_, _)
Interleave(s, v) ==
  IF s = <<>> THEN v ELSE v \o <<Head(s)>> \o Interleave(Tail(s), v)

RECURSIVE Replace(_, _, _)
Replace(s, k, v) ==
  IF k = <<>> THEN Interleave(s, v)
  ELSE IF Len(s) < Len(k) THEN s
  ELSE IF StartsWith(s, k) THEN v \o Replace(Drop(s, Len(k)), k, v)
  ELSE <<Head(s)>> \o Replace(Tail(s), k, v)

Range(f) == {f[i] : i \in DOMAIN f}

(* The orders in which a collection of the elements of R may be visited. *)
Orders(R) ==
  {o \in [1..Cardinality(R) -> R] : \A i, j \in DOMAIN o : i # j => o[i] # o[j]}

(* The last index of character c in s, 0 when there is none.                *)
LastIndexOf(s, c) ==
  LET I == {i \in 1..Len(s) : s[i] = c}
  IN  IF I = {} THEN 0 ELSE CHOOSE i \in I : \A j \in I : j <= i

----------------------------------------------------------------------------
(* std::path::Path on '/'-separated paths without trailing separators.      *)

FileName(p) ==
  LET n == Drop(p, LastIndexOf(p, "/"))
  IN  IF n \in {<<>>, <<".">>, <<".", ".">>} THEN None ELSE Some(n)

Parent(p) ==
  LET i == LastIndexOf(p, "/")
  IN  IF p = <<>> THEN None
      ELSE IF i = 0 THEN Some(<<>>)
      ELSE Some(SubSeq(p, 1, i - 1))

Join(dir, base) == IF dir = <<>> THEN base ELSE dir \o <<"/">> \o base

(* Path::file_stem / Path::extension of a bare name (rsplit_file_at_dot):   *)
(* <<before, after>> of the last '.', no split for "..", for a name without *)
(* a dot and for a name whose only dot is its first character.              *)
rsplit_file_at_dot(file) ==
  LET d == LastIndexOf(file, ".")
  IN  IF file = <<".", ".">> THEN <<Some(file), None>>
      ELSE IF d = 0 THEN <<None, Some(file)>>
      ELSE IF d = 1 THEN <<Some(file), None>>
      ELSE <<Some(SubSeq(file, 1, d - 1)), Some(Drop(file, d))>>

file_stem(name) ==
  IF FileName(name) = None THEN None
  ELSE LET ba == rsplit_file_at_dot(Unwrap(FileName(name)))
       IN  IF IsSome(ba[1]) THEN ba[1] ELSE ba[2]

extension(name) ==
  IF FileName(name) = None THEN None
  ELSE LET ba == rsplit_file_at_dot(Unwrap(FileName(name)))
       IN  IF IsSome(ba[1]) THEN ba[2] ELSE None

dir_base(abs_path) ==
  IF IsSome(FileName(abs_path)) /\ IsSome(Parent(abs_path))
  THEN Some([dir |-> Unwrap(Parent(abs_path)), base |-> Unwrap(FileName(abs_path))])
  ELSE None

is_hidden(path) ==
  IF IsSome(FileName(path)) THEN StartsWith(Unwrap(FileName(path)), <<".">>) ELSE FALSE

os2string(input) == IF IsSome(input) THEN Ok(Unwrap(input)) ELSE Err("OptionIsNone")

----------------------------------------------------------------------------
(* The separator collapse and strip of the transformation.                  *)

(* Regex (?i){word}{word}+ for a word of literal characters: the word, then *)
(* the word again with its last character repeated one or more times,       *)
(* compared case-insensitively. MatchLen is the length of the greedy match  *)
(* that starts at the head of s, 0 when there is none.                      *)
RECURSIVE RunLen(_, _)
RunLen(s, c) ==
  IF s # <<>> /\ Lower(Head(s)) = Lower(c) THEN 1 + RunLen(Tail(s), c) ELSE 0

MatchLen(s, word) ==
  LET pat == word \o word
      n == Len(pat)
  IN  IF Len(s) >= n /\ \A j \in 1..n : Lower(s[j]) = Lower(pat[j])
      THEN n + RunLen(Drop(s, n), word[Len(word)])
      ELSE 0

RECURSIVE replace_all(_, _)
replace_all(s, word) ==
  IF s = <<>> THEN <<>>
  ELSE LET m == MatchLen(s, word)
       IN  IF m > 0 THEN word \o replace_all(Drop(s, m), word)
           ELSE <<Head(s)>> \o replace_all(Tail(s), word)

remove_continuous(source, word) ==
  IF word = <<>> THEN Err("RegexSyntax") ELSE Ok(replace_all(source, word))

(* The strip repeated on each side until no separator is left there.        *)
RECURSIVE remove_prefix_sep_suffix_sep_Repeated(_, _)
remove_prefix_sep_suffix_sep_Repeated(s, sep) ==
  IF sep # <<>> /\ StartsWith(s, sep)
  THEN remove_prefix_sep_suffix_sep_Repeated(Drop(s, Len(sep)), sep)
  ELSE IF sep # <<>> /\ EndsWith(s, sep)
  THEN remove_prefix_sep_suffix_sep_Repeated(SubSeq(s, 1, Len(s) - Len(sep)), sep)
  ELSE s

remove_prefix_sep_suffix_sep(s, sep) ==
  LET s1 == IF StartsWith(s, sep) THEN Drop(s, Len(sep)) ELSE s
  IN  IF EndsWith(s1, sep) THEN SubSeq(s1, 1, Len(s1) - Len(sep)) ELSE s1

----------------------------------------------------------------------------
(* The substitution loops of fdn_f. A rule is <<from, to>>; order is the    *)
(* iteration order of the HashMap, a sequence of its rules.                 *)

RECURSIVE SubstPass(_, _)
SubstPass(f_stem, order) ==
  IF order = <<>> THEN f_stem
  ELSE SubstPass(Replace(f_stem, Head(order)[1], Head(order)[2]), Tail(order))

RECURSIVE SubstLoop(_, _)
SubstLoop(f_stem, order) ==
  LET n == SubstPass(f_stem, order)
  IN  IF n = f_stem THEN f_stem ELSE SubstLoop(n, order)

SplitName(base_name, isFile) ==
  IF isFile THEN <<file_stem(base_name), extension(base_name)>>
  ELSE <<Some(base_name), None>>

JoinName(f_stem, f_ext) ==
  IF IsSome(f_ext) THEN f_stem \o <<".">> \o Unwrap(f_ext) ELSE f_stem

(* The target name fdn_f computes when no explicit target is given.         *)
ComputeTargetName(base_name, isFile, sep, toSepOrder, termOrder) ==
  LET se == SplitName(base_name, isFile)
      st == os2string(se[1])
  IN  IF ~st.ok THEN st
      ELSE LET s1 == SubstLoop(st.v, toSepOrder)
               s2 == SubstLoop(s1, termOrder)
               s3 == remove_continuous(s2, sep)
           IN  IF ~s3.ok THEN s3
               ELSE Ok(JoinName(remove_prefix_sep_suffix_sep(s3.v, sep), se[2]))

----------------------------------------------------------------------------
(* The filesystem: a set of entries [path, isFile, hist]; hist is the       *)
(* sequence of bare names the entry has had through applied forward renames *)
(* that were not taken back, the first being the name it started with.      *)

Exists(fsv, p) == \E e \in fsv : e.path = p
IsFile(fsv, p) == \E e \in fsv : e.path = p /\ e.isFile
IsDir(fsv, p) == \E e \in fsv : e.path = p /\ ~e.isFile

(* Path::starts_with: p is base or lies under it.                           *)
PathStartsWith(p, base) == p = base \/ StartsWith(p, base \o <<"/">>)

(* fs::rename(s, t). It fails when the system refuses it (permitted is      *)
(* FALSE), when s does not exist, when t has no final component, when a     *)
(* file is renamed onto a directory and when a directory is renamed onto a  *)
(* file or a non-empty directory; otherwise s, and everything under it,     *)
(* moves to t, replacing what was there.                                    *)
Rename(fsv, s, t, permitted, hist) ==
  LET blocked ==
        \/ ~permitted
        \/ ~Exists(fsv, s)
        \/ FileName(t) = None
        \/ IsFile(fsv, s) /\ IsDir(fsv, t)
        \/ IsDir(fsv, s) /\ IsFile(fsv, t)
        \/ IsDir(fsv, s) /\ \E e \in fsv : e.path # t /\ PathStartsWith(e.path, t)
      Moved(e) == IF e.path = s THEN [e EXCEPT !.path = t, !.hist = hist]
                  ELSE IF PathStartsWith(e.path, s)
                  THEN [e EXCEPT !.path = t \o Drop(e.path, Len(s))]
                  ELSE e
  IN  IF blocked THEN [ok |-> FALSE, fs |-> fsv]
      ELSE [ok |-> TRUE, fs |-> {Moved(e) : e \in {x \in fsv : x.path # t}}]

HistOf(fsv, p) ==
  IF Exists(fsv, p) THEN (CHOOSE e \in fsv : e.path = p).hist ELSE <<>>

(* The history of an entry after the forward rename to name, and after the  *)
(* rename back to prev.                                                     *)
HistPush(hist, name) == Append(hist, name)
HistPop(hist, prev) ==
  IF Len(hist) >= 2 /\ hist[Len(hist) - 1] = prev
  THEN SubSeq(hist, 1, Len(hist) - 1)
  ELSE <<prev>>

(* Depth of p below root as WalkDir counts it.                              *)
DepthBelow(p, root) == Cardinality({i \in Len(root) + 1..Len(p) : p[i] = "/"})

Walk(fsv, directory, depth) ==
  {e \in fsv : PathStartsWith(e.path, directory) /\ DepthBelow(e.path, directory) <= depth}

Excluded(p, excludes) == \E exc \in excludes : PathStartsWith(p, exc)

(* regular_files: the files of the walk, without the excluded ones; the     *)
(* walk's order is the filesystem's.                                        *)
regular_files(fsv, directory, depth, excludes) ==
  Orders({e.path : e \in {x \in Walk(fsv, directory, depth) :
                          x.isFile /\ ~Excluded(x.path, excludes)}})

(* OsStr::cmp: byte-wise lexicographic order.                               *)
RECURSIVE LexLess(_, _)
LexLess(a, b) ==
  IF b = <<>> THEN FALSE
  ELSE IF a = <<>> THEN TRUE
  ELSE IF Head(a) = Head(b) THEN LexLess(Tail(a), Tail(b))
  ELSE Code(Head(a)) < Code(Head(b))

(* The comparator without its reverse(): ascending order.                   *)
SortsBefore_Ascending(a, b) == LexLess(a, b)

(* The comparator of directories(): a sorts before b when a.cmp(b) is       *)
(* Greater (the comparison is reversed); equal strings have equal length.   *)
SortsBefore(a, b) == LexLess(b, a)

RECURSIVE SortBy(_)
SortBy(S) ==
  IF S = {} THEN <<>>
  ELSE LET m == CHOOSE x \in S : \A y \in S : y = x \/ SortsBefore(x, y)
       IN  <<m>> \o SortBy(S \ {m})

directories(fsv, directory, depth, excludes) ==
  SortBy({e.path : e \in {x \in Walk(fsv, directory, depth) :
                          ~x.isFile /\ ~Excluded(x.path, excludes)}})

----------------------------------------------------------------------------
(* The ledger (utils: hashed_name, encrypted, decrypted, insert_record,     *)
(* retrieve_records, delete_records).                                       *)

Chars == {" ", "-", ".", "/", "A", "_", "a", "b", "d", "h", "p", "q", "t", "x"}

(* The fingerprint of a bare name: deterministic and free of collisions.    *)
hashed_name(name) == [digest |-> name]

ToHex(str) == [i \in 1..Len(str) |-> Code(str[i])]
from_hex(hex) == [i \in 1..Len(hex) |-> CHOOSE c \in Chars : Code(c) = hex[i]]

(* encrypt(plain, key) and decrypt(cipher, key): an exact round trip under  *)
(* the same key, an error under another.                                    *)
encrypted(origin, key) == Ok([key |-> key, hex |-> ToHex(origin)])
decrypted(cipher, key) ==
  IF cipher.key = key THEN Ok(cipher.hex) ELSE Err("CryptoError")

(* Record::new                                                              *)
RecordNew(origin, target) ==
  LET e == encrypted(origin, target)
  IN  IF e.ok
      THEN Ok([id |-> 0, hashed_current_name |-> hashed_name(target),
               encrypted_pre_name |-> e.v, count |-> 1])
      ELSE e

(* The table keeps its rows in id order; a new row gets the next id. The    *)
(* model keeps the ids dense (1..n): a row's id is only ever compared with  *)
(* the ids of the other rows of the same table.                             *)
Renumber(led) == [i \in DOMAIN led |-> [led[i] EXCEPT !.id = i]]

insert_record(led, rd) == Append(led, [rd EXCEPT !.id = Len(led) + 1])

retrieve_records(led) == led

RECURSIVE DeleteWhere(_, _)
DeleteWhere(led, id) ==
  IF led = <<>> THEN <<>>
  ELSE IF Head(led).id = id THEN DeleteWhere(Tail(led), id)
  ELSE <<Head(led)>> \o DeleteWhere(Tail(led), id)

delete_records(led, id) == Renumber(DeleteWhere(led, id))

(* The HashMap fdn_rf collects from the records, read at key h: of several  *)
(* records with the same key the last one collected stays.                  *)
MapGet(rds, h) ==
  LET I == {i \in DOMAIN rds : rds[i].hashed_current_name = h}
  IN  IF I = {} THEN None
      ELSE Some(rds[CHOOSE i \in I : \A j \in I : j <= i])

----------------------------------------------------------------------------
VARIABLES
  fs,          \* the filesystem: the entries [path, isFile, hist] that exist
  ledger,      \* the records table, in id order
  mode,        \* "idle", or the batch that is running: "fwd" or "rev"
  args,        \* the Args of the running batch
  todo,        \* the <<path, target>> pairs still to be visited by the batch
  frc,         \* fdn_rfs_post: the path the chain walk is at, or None
  result,      \* how the last batch ended or "running"
  last,        \* the entry the running batch met last: Some [path, passed its filter]
  walk,        \* fdn_rfs_post: what the loop of the current entry has done
  out,         \* the pair of lines the last step printed, or None
  t_name,      \* transformation run: the bare name given to fdn_f
  t_isFile,    \* whether s_path.is_file()
  t_sep,       \* the active separator
  t_toSep,     \* the ToSepWord rules in HashMap iteration order
  t_term,      \* the TermWord rules in HashMap iteration order
  t_pc,        \* position in fdn_f
  f_stem,
  old_f_stem,
  f_ext,
  t_round,     \* 1: first application, 2: application to the first result
  t_first,     \* the result of the first application
  s_src,       \* string functions: the source string
  s_word,      \* the separator given
  s_op,        \* "init", or the function that was applied
  s_res        \* its result

varsL == <<fs, ledger, mode, args, todo, frc, result, last, walk, out>>
varsT == <<t_name, t_isFile, t_sep, t_toSep, t_term, t_pc, f_stem, old_f_stem,
           f_ext, t_round, t_first>>
varsS == <<s_src, s_word, s_op, s_res>>
vars == <<fs, ledger, mode, args, todo, frc, result, last, walk, out,
          t_name, t_isFile, t_sep, t_toSep, t_term, t_pc, f_stem, old_f_stem,
          f_ext, t_round, t_first, s_src, s_word, s_op, s_res>>

(* Sequences over alpha of length at most n.                                *)
Strs(alpha, n) == UNION {[1..k -> alpha] : k \in 0..n}

NoArgs == [in_place |-> FALSE, not_ignore_hidden |-> FALSE,
           reverse_chainly |-> FALSE, align |-> FALSE, filetype |-> "f"]

NoWalk == [from |-> <<>>, names |-> <<>>, ended |-> "no", turn |-> 0]

IdleL ==
  /\ fs = {} /\ ledger = <<>> /\ mode = "idle" /\ args = NoArgs /\ todo = <<>>
  /\ frc = None /\ result = "none" /\ last = None /\ walk = NoWalk /\ out = None

IdleT ==
  /\ t_name = <<>> /\ t_isFile = FALSE /\ t_sep = <<>> /\ t_toSep = <<>>
  /\ t_term = <<>> /\ t_pc = "off" /\ f_stem = <<>> /\ old_f_stem = <<>>
  /\ f_ext = None /\ t_round = 0 /\ t_first = <<>>

IdleS == s_src = <<>> /\ s_word = <<>> /\ s_op = "off" /\ s_res = Ok(<<>>)

----------------------------------------------------------------------------
(* The string functions applied to drawn inputs.                            *)

MaxSrcLen == 6
SAlpha == {"a", "b", "A", "_"}
SWords == {<<"_">>, <<"a">>, <<"a", "b">>}

InitS ==
  /\ s_src \in Strs(SAlpha, MaxSrcLen)
  /\ s_word \in SWords
  /\ s_op = "init"
  /\ s_res = Ok(<<>>)
  /\ IdleL /\ IdleT

ApplyRemoveContinuous ==
  /\ s_op = "init"
  /\ s_res' = remove_continuous(s_src, s_word)
  /\ s_op' = "remove_continuous"
  /\ UNCHANGED <<s_src, s_word, varsL, varsT>>

ApplyRemoveXfix ==
  /\ s_op = "init"
  /\ s_res' = Ok(remove_prefix_sep_suffix_sep(s_src, s_word))
  /\ s_op' = "remove_prefix_sep_suffix_sep"
  /\ UNCHANGED <<s_src, s_word, varsL, varsT>>

NextS == ApplyRemoveContinuous \/ ApplyRemoveXfix

SpecS == InitS /\ [][NextS]_vars

(* Reference for the collapse: the number of consecutive case-insensitive   *)
(* occurrences of word at the head of s, and s with every run of two or     *)
(* more occurrences replaced by one.                                        *)
RECURSIVE CountOcc(_, _)
CountOcc(s, word) ==
  IF Len(s) >= Len(word) /\ \A j \in 1..Len(word) : Lower(s[j]) = Lower(word[j])
  THEN 1 + CountOcc(Drop(s, Len(word)), word)
  ELSE 0

RECURSIVE CollapseRuns(_, _)
CollapseRuns(s, word) ==
  IF s = <<>> THEN <<>>
  ELSE LET k == CountOcc(s, word)
       IN  IF k >= 2 THEN word \o CollapseRuns(Drop(s, k * Len(word)), word)
           ELSE <<Head(s)>> \o CollapseRuns(Tail(s), word)

NoAdjacentOcc(s, word) == \A i \in 1..Len(s) : CountOcc(Drop(s, i - 1), word) < 2

(* C10: remove_continuous replaces every run of two or more consecutive     *)
(* case-insensitive occurrences of the separator (a character or a longer   *)
(* word) by exactly one occurrence, changes nothing else, and leaves no two *)
(* adjacent occurrences.                                                    *)
C10_CollapsesEveryRun ==
  s_op = "remove_continuous" =>
    /\ s_res.ok
    /\ s_res.v = CollapseRuns(s_src, s_word)
    /\ NoAdjacentOcc(s_res.v, s_word)

(* The same statement for one-character separators only.                    *)
C10_SingleCharOnly == Len(s_word) = 1 => C10_CollapsesEveryRun

(* C11: remove_prefix_sep_suffix_sep removes exactly one leading occurrence *)
(* of the separator if the stem starts with it and exactly one trailing     *)
(* occurrence if what remains ends with it, and nothing else: the result is *)
(* the stem between those two cuts, and a stem that neither starts nor ends *)
(* with the separator is returned unchanged.                                *)
C11_StripsOnceEachSide ==
  s_op = "remove_prefix_sep_suffix_sep" =>
    LET lead == IF StartsWith(s_src, s_word) THEN Len(s_word) ELSE 0
        trail == IF EndsWith(Drop(s_src, lead), s_word) THEN Len(s_word) ELSE 0
    IN  /\ s_res.ok
        /\ s_res.v = SubSeq(s_src, lead + 1, Len(s_src) - trail)
        /\ Len(s_res.v) = Len(s_src) - lead - trail
        /\ (~StartsWith(s_src, s_word) /\ ~EndsWith(s_src, s_word)) => s_res.v = s_src

(* A stem with the separator twice at each end has been stripped: one       *)
(* occurrence is left on each side.                                         *)
C11_Witness ==
  /\ s_op = "remove_prefix_sep_suffix_sep"
  /\ StartsWith(s_src, s_word \o s_word)
  /\ EndsWith(s_src, s_word \o s_word)
  /\ Len(s_src) > 4 * Len(s_word)
  /\ StartsWith(s_res.v, s_word) /\ EndsWith(s_res.v, s_word)
  /\ Len(s_res.v) = Len(s_src) - 2 * Len(s_word)

----------------------------------------------------------------------------
(* fdn_f's computation of the target name, pass by pass, applied to a bare  *)
(* name and then to its own result.                                         *)

MaxNameLen == 2
MaxStemLen == 6
TAlpha == {"a", "b", " ", "_", "."}
TSeps == {<<"_">>}
ToSepWords == {<<" ">>}
TermWords == {<< <<"a">>, <<"a", "b">> >>, << <<"b", "b">>, <<>> >>,
              << <<"b">>, <<" ">> >>}

(* A ToSepWord row as the rule the replacements_map holds for it.           *)
ToSepRule(w, sep) == <<w, sep>>

(* No ToSepWord equal to the separator, no TermWord whose key is its value. *)
NoSelfRule ==
  /\ \A r \in Range(t_toSep) : r[1] # r[2]
  /\ \A r \in Range(t_term) : r[1] # r[2]

InitT ==
  /\ t_name \in {n \in Strs(TAlpha, MaxNameLen) : IsSome(FileName(n))}
  /\ t_isFile \in BOOLEAN
  /\ t_sep \in TSeps
  /\ \E W \in SUBSET ToSepWords :
       t_toSep \in Orders({ToSepRule(w, t_sep) : w \in W})
  /\ \E R \in SUBSET TermWords : t_term \in Orders(R)
  /\ t_pc = "split"
  /\ f_stem = <<>> /\ old_f_stem = <<>> /\ f_ext = None
  /\ t_round = 1
  /\ t_first = <<>>
  /\ IdleL /\ IdleS

TSplit ==
  /\ t_pc = "split"
  /\ LET se == SplitName(t_name, t_isFile)
         st == os2string(se[1])
     IN  IF st.ok
         THEN /\ f_stem' = st.v /\ old_f_stem' = st.v /\ f_ext' = se[2]
              /\ t_pc' = "tosep"
         ELSE /\ t_pc' = "error"
              /\ UNCHANGED <<f_stem, old_f_stem, f_ext>>
  /\ UNCHANGED <<t_name, t_isFile, t_sep, t_toSep, t_term, t_round, t_first,
                 varsL, varsS>>

(* One pass of a substitution loop over the rules in order; the loop is     *)
(* left for pc next when the pass changed nothing.                          *)
LoopPass(order, next) ==
  LET n == SubstPass(f_stem, order)
  IN  IF Len(n) > MaxStemLen
      THEN t_pc' = "capped" /\ UNCHANGED <<f_stem, old_f_stem>>
      ELSE /\ f_stem' = n
           /\ old_f_stem' = n
           /\ t_pc' = IF old_f_stem = n THEN next ELSE t_pc

TToSepPass ==
  /\ t_pc = "tosep"
  /\ LoopPass(t_toSep, "term")
  /\ UNCHANGED <<t_name, t_isFile, t_sep, t_toSep, t_term, f_ext, t_round,
                 t_first, varsL, varsS>>

TTermPass ==
  /\ t_pc = "term"
  /\ LoopPass(t_term, "collapse")
  /\ UNCHANGED <<t_name, t_isFile, t_sep, t_toSep, t_term, f_ext, t_round,
                 t_first, varsL, varsS>>

TCollapse ==
  /\ t_pc = "collapse"
  /\ LET r == remove_continuous(f_stem, t_sep)
     IN  IF r.ok THEN f_stem' = r.v /\ t_pc' = "strip"
         ELSE t_pc' = "error" /\ UNCHANGED f_stem
  /\ UNCHANGED <<t_name, t_isFile, t_sep, t_toSep, t_term, old_f_stem, f_ext,
                 t_round, t_first, varsL, varsS>>

TStrip ==
  /\ t_pc = "strip"
  /\ f_stem' = remove_prefix_sep_suffix_sep(f_stem, t_sep)
  /\ t_pc' = "join"
  /\ UNCHANGED <<t_name, t_isFile, t_sep, t_toSep, t_term, old_f_stem, f_ext,
                 t_round, t_first, varsL, varsS>>

(* The first application ends: its result is the name given to the second,  *)
(* which runs with maps of the same rules in an iteration order of its own. *)
TJoinFirst ==
  /\ t_pc = "join" /\ t_round = 1
  /\ t_first' = JoinName(f_stem, f_ext)
  /\ t_name' = JoinName(f_stem, f_ext)
  /\ t_round' = 2
  /\ t_toSep' \in Orders(Range(t_toSep))
  /\ t_term' \in Orders(Range(t_term))
  /\ t_pc' = "split"
  /\ UNCHANGED <<t_isFile, t_sep, f_stem, old_f_stem, f_ext, varsL, varsS>>

TJoinSecond ==
  /\ t_pc = "join" /\ t_round = 2
  /\ t_name' = JoinName(f_stem, f_ext)
  /\ t_pc' = "done"
  /\ UNCHANGED <<t_isFile, t_sep, t_toSep, t_term, f_stem, old_f_stem, f_ext,
                 t_round, t_first, varsL, varsS>>

NextT ==
  \/ TSplit \/ TToSepPass \/ TTermPass \/ TCollapse \/ TStrip
  \/ TJoinFirst \/ TJoinSecond

SpecT == InitT /\ [][NextT]_vars

(* fdn_f runs on one thread and keeps running while it has a step to take.  *)
SpecTFair == SpecT /\ WF_vars(NextT)

(* C4: the target name of an already computed target name is that name      *)
(* again, for any bare name and fixed rule set.                             *)
C4_Idempotent == t_pc = "done" => t_name = t_first

(* C5: with no rule that maps a string to itself, each substitution loop    *)
(* (ToSepWords, TermWords) reaches a pass that changes nothing and is left. *)
C5_LoopsTerminate ==
  NoSelfRule => /\ (t_pc = "tosep") ~> (t_pc # "tosep")
                /\ (t_pc = "term") ~> (t_pc # "term")

----------------------------------------------------------------------------
(* The diff presenter.                                                      *)

stem_ext(path) ==
  LET stem == os2string(file_stem(path))
      ext == os2string(extension(path))
  IN  IF ~stem.ok THEN stem
      ELSE IF ~ext.ok THEN ext
      ELSE Ok(<<stem.v, ext.v>>)

Pad(str, n) == str \o [i \in 1..(n - Len(str)) |-> " "]

(* utils::s_compare: the two pieces as they are (plain) or padded to one    *)
(* width (mode "a").                                                        *)
s_compare(o, e, cmpMode) ==
  LET w == IF Len(o) > Len(e) THEN Len(o) ELSE Len(e)
  IN  IF cmpMode = "a" THEN Ok(<<Pad(o, w), Pad(e, w)>>) ELSE Ok(<<o, e>>)

fname_compare(origin, edit, cmpMode) ==
  LET o == stem_ext(origin)
      e == stem_ext(edit)
  IN  IF ~o.ok THEN o
      ELSE IF ~e.ok THEN e
      ELSE LET sc == s_compare(o.v[1], e.v[1], cmpMode)
               ec == s_compare(o.v[2], e.v[2], cmpMode)
               dot(ext) == IF ext = <<>> THEN <<>> ELSE <<".">>
           IN  IF ~sc.ok THEN sc
               ELSE IF ~ec.ok THEN ec
               ELSE Ok(<<sc.v[1] \o dot(o.v[2]) \o ec.v[1],
                         sc.v[2] \o dot(e.v[2]) \o ec.v[2]>>)

(* What the batch prints for a compared pair: nothing when the two rendered *)
(* names are equal.                                                         *)
Printed(pair, in_place) ==
  IF pair[1] # pair[2]
  THEN Some([origin |-> pair[1], edited |-> pair[2],
             arrow |-> IF in_place THEN "==>" ELSE "-->"])
  ELSE None

----------------------------------------------------------------------------
(* The rules the store holds while the batches run.                         *)

Separators == <<>>
DefaultSeparator == <<"_">>
CfgToSepWords == {<<" ">>, <<"-">>}
CfgTermWords == {}

ActiveSep == IF Separators # <<>> THEN Separators[1] ELSE DefaultSeparator

(* fdn_f from its "take effect" test on: name is the target name in a      *)
(* Result.                                                                  *)
TakeEffect(fsv, led, d_b, name, in_place, permitted) ==
  IF ~name.ok THEN [res |-> name, fs |-> fsv, ledger |-> led]
  ELSE IF name.v # d_b.base /\ in_place
  THEN LET s_path == Join(d_b.dir, d_b.base)
           r == Rename(fsv, s_path, Join(d_b.dir, name.v), permitted,
                       HistPush(HistOf(fsv, s_path), name.v))
           rd == RecordNew(d_b.base, name.v)
       IN  IF ~r.ok
           THEN [res |-> Err("RenameError"), fs |-> fsv, ledger |-> led]
           ELSE IF ~rd.ok THEN [res |-> rd, fs |-> r.fs, ledger |-> led]
           ELSE [res |-> name, fs |-> r.fs, ledger |-> insert_record(led, rd.v)]
  ELSE [res |-> name, fs |-> fsv, ledger |-> led]

(* The target name of fdn_f: the explicit target, or the computed one.      *)
TargetName(fsv, d_b, target, toSepOrder, termOrder) ==
  IF IsSome(target) THEN Ok(Unwrap(target))
  ELSE ComputeTargetName(d_b.base, IsFile(fsv, Join(d_b.dir, d_b.base)),
                         ActiveSep, toSepOrder, termOrder)

(* fdn_f with the in_place test left out of the "take effect" condition.    *)
fdn_f_AlwaysApplies(fsv, led, d_b, target, in_place, permitted, toSepOrder, termOrder) ==
  TakeEffect(fsv, led, d_b, TargetName(fsv, d_b, target, toSepOrder, termOrder),
             TRUE, permitted)

(* fdn_f: the name it returns and the filesystem and ledger it leaves.      *)
fdn_f(fsv, led, d_b, target, in_place, permitted, toSepOrder, termOrder) ==
  TakeEffect(fsv, led, d_b, TargetName(fsv, d_b, target, toSepOrder, termOrder),
             in_place, permitted)

(* fdn_rf with the record deleted before the rename is tried.               *)
fdn_rf_DeletesFirst(fsv, led, d_b, in_place, permitted) ==
  LET base_name == d_b.base
      rd == MapGet(retrieve_records(led), hashed_name(base_name))
      same == [fs |-> fsv, ledger |-> led]
  IN  IF ~IsSome(rd) THEN [res |-> Ok(None)] @@ same
      ELSE LET v == decrypted(Unwrap(rd).encrypted_pre_name, base_name)
           IN  IF ~v.ok THEN [res |-> v] @@ same
               ELSE LET prev == from_hex(v.v)
                        s_path == Join(d_b.dir, d_b.base)
                        r == Rename(fsv, s_path, Join(d_b.dir, prev), permitted,
                                    HistPop(HistOf(fsv, s_path), prev))
                        del == IF Unwrap(rd).count = 1
                               THEN delete_records(led, Unwrap(rd).id)
                               ELSE led
                    IN  IF ~in_place THEN [res |-> Ok(Some(prev))] @@ same
                        ELSE IF ~r.ok
                        THEN [res |-> Err("RenameError"), fs |-> fsv, ledger |-> del]
                        ELSE [res |-> Ok(Some(prev)), fs |-> r.fs, ledger |-> del]

(* fdn_rf: the previous name it returns (an Option) and the filesystem and  *)
(* ledger it leaves.                                                        *)
fdn_rf(fsv, led, d_b, in_place, permitted) ==
  LET base_name == d_b.base
      rd == MapGet(retrieve_records(led), hashed_name(base_name))
      same == [fs |-> fsv, ledger |-> led]
  IN  IF ~IsSome(rd) THEN [res |-> Ok(None)] @@ same
      ELSE LET v == decrypted(Unwrap(rd).encrypted_pre_name, base_name)
           IN  IF ~v.ok THEN [res |-> v] @@ same
               ELSE LET prev == from_hex(v.v)
                        s_path == Join(d_b.dir, d_b.base)
                        r == Rename(fsv, s_path, Join(d_b.dir, prev), permitted,
                                    HistPop(HistOf(fsv, s_path), prev))
                    IN  IF ~in_place THEN [res |-> Ok(Some(prev))] @@ same
                        ELSE IF ~r.ok THEN [res |-> Err("RenameError")] @@ same
                        ELSE [res |-> Ok(Some(prev)), fs |-> r.fs,
                              ledger |-> IF Unwrap(rd).count = 1
                                         THEN delete_records(led, Unwrap(rd).id)
                                         ELSE led]

(* The filters of the two batches.                                          *)
ForwardFilter(of, not_ignore_hidden) == ~(is_hidden(of) /\ not_ignore_hidden)
ReverseFilter(f, not_ignore_hidden) == not_ignore_hidden \/ ~is_hidden(f)

----------------------------------------------------------------------------
(* The batches: main, fdn_fs_post and fdn_rfs_post over a small filesystem. *)

MaxDepth == 2
MaxRecords == 3
MaxHist == 3

Root == <<".">>
Entry(p, isFile) ==
  [path |-> p, isFile |-> isFile, hist |-> <<Unwrap(FileName(p))>>]
RootEntry == [path |-> Root, isFile |-> FALSE, hist |-> <<>>]

(* A tree of two directories with a file in each.                           *)
FileTree ==
  {RootEntry, Entry(<<".", "/", "p">>, FALSE), Entry(<<".", "/", "q">>, FALSE),
   Entry(<<".", "/", "p", "/", "a", " ", "b", ".", "t">>, TRUE),
   Entry(<<".", "/", "q", "/", "a", "-", "b", ".", "t">>, TRUE)}

(* A directory with a hidden file and a file that is not hidden.            *)
HiddenTree ==
  {RootEntry, Entry(<<".", "/", ".", "h", " ", "b">>, TRUE),
   Entry(<<".", "/", "a", " ", "b">>, TRUE)}

(* Trees of directories whose names hold a '.': every set of the paths      *)
(* below that holds the parent of each of its paths.                        *)
DirPaths ==
  {<<".", "/", "a", " ", "b", ".", "d">>,
   <<".", "/", "a", " ", "b", ".", "d", "/", "a", " ", "b", ".", "d">>,
   <<".", "/", "a", " ", "b", ".", "d", "/", "b", ".", "d">>,
   <<".", "/", "a", "_", "b", ".", "d">>,
   <<".", "/", "b", ".", "d">>,
   <<".", "/", "b", ".", "d", "/", "a", " ", "b", ".", "d">>}

Closed(S) == \A x \in S : Unwrap(Parent(x)) = Root \/ Unwrap(Parent(x)) \in S

DirTrees ==
  {{RootEntry} \cup {Entry(x, FALSE) : x \in S} :
     S \in {X \in SUBSET DirPaths : X # {} /\ Closed(X)}}

MvTargets == {<<"x", ".", "t">>}

ExcludeSets == {{}, {<<".", "/", "q">>}, {<<".", "/", "a", " ", "b", ".", "d">>}}

ArgsSet ==
  [in_place : BOOLEAN, not_ignore_hidden : BOOLEAN, reverse_chainly : BOOLEAN,
   align : BOOLEAN, filetype : {"f", "d"}]

Init ==
  /\ fs \in {FileTree, HiddenTree} \cup DirTrees
  /\ ledger = <<>>
  /\ mode = "idle" /\ args = NoArgs /\ todo = <<>> /\ frc = None
  /\ result = "none" /\ last = None /\ walk = NoWalk /\ out = None
  /\ IdleT /\ IdleS

(* main: the list of paths of a run over input_path.                        *)
Files(a, input_path, depth, exs) ==
  IF a.filetype = "f"
  THEN IF IsDir(fs, input_path) THEN regular_files(fs, input_path, depth, exs)
       ELSE {<<input_path>>}
  ELSE {directories(fs, input_path, depth, exs)}

(* The bound of the model on the ledger and on the histories: an applying   *)
(* forward batch is started only while both have room for its renames.      *)
HasRoom(a, files) ==
  a.in_place =>
    /\ Len(ledger) + Len(files) <= MaxRecords
    /\ \A i \in DOMAIN files : Len(HistOf(fs, files[i])) < MaxHist

Begin(m, a, list) ==
  /\ mode' = m
  /\ args' = a
  /\ todo' = list
  /\ result' = "running"
  /\ UNCHANGED <<fs, ledger, frc, last, walk, out, varsT, varsS>>

StartForward ==
  /\ mode = "idle"
  /\ \E a \in ArgsSet, input_path \in {e.path : e \in fs}, depth \in 1..MaxDepth,
        exs \in ExcludeSets :
       /\ ~a.reverse_chainly
       /\ a.filetype = "d" => IsDir(fs, input_path)
       /\ \E files \in Files(a, input_path, depth, exs) :
            /\ HasRoom(a, files)
            /\ Begin("fwd", a,
                     [i \in DOMAIN files |-> [path |-> files[i], target |-> None]])

(* fdn mv <path> <target>                                                   *)
StartMv ==
  /\ mode = "idle"
  /\ \E a \in ArgsSet, e \in fs, tn \in MvTargets :
       /\ ~a.reverse_chainly /\ a.filetype = "f"
       /\ e.isFile
       /\ HasRoom(a, <<e.path>>)
       /\ Begin("fwd", a, <<[path |-> e.path, target |-> Some(tn)]>>)

StartReverse ==
  /\ mode = "idle"
  /\ \E a \in ArgsSet, input_path \in {e.path : e \in fs}, depth \in 1..MaxDepth,
        exs \in ExcludeSets :
       /\ a.filetype = "d" => IsDir(fs, input_path)
       /\ \E files \in Files(a, input_path, depth, exs) :
            Begin("rev", a,
                  [i \in DOMAIN files |-> [path |-> files[i], target |-> None]])

CmpMode == IF args.align THEN "a" ELSE ""

Fail(e) == mode' = "exit" /\ result' = e /\ todo' = <<>> /\ frc' = None

(* fdn_fs_post: the closure from the result r of fdn_f on, and from the     *)
(* compared pair cmp on.                                                    *)
ForwardPrint(cmp) ==
  IF ~cmp.ok THEN Fail(cmp.err) /\ out' = None
  ELSE /\ out' = Printed(cmp.v, args.in_place)
       /\ todo' = Tail(todo)
       /\ UNCHANGED <<mode, result, frc>>

ForwardClosure(r, base) ==
  /\ fs' = r.fs
  /\ ledger' = r.ledger
  /\ IF ~r.res.ok THEN Fail(r.res.err) /\ out' = None
     ELSE ForwardPrint(fname_compare(base, r.res.v, CmpMode))

(* fdn_fs_post: one entry of the zipped list, through the filter and the    *)
(* closure.                                                                 *)
ForwardEntry ==
  /\ mode = "fwd" /\ todo # <<>>
  /\ LET of == Head(todo).path
         d_b == dir_base(of)
     IN  IF ~ForwardFilter(of, args.not_ignore_hidden)
         THEN /\ last' = Some([path |-> of, passed |-> FALSE])
              /\ todo' = Tail(todo)
              /\ out' = None
              /\ UNCHANGED <<fs, ledger, mode, result, frc>>
         ELSE /\ last' = Some([path |-> of, passed |-> TRUE])
              /\ IF ~IsSome(d_b)
                 THEN /\ todo' = Tail(todo)
                      /\ out' = None
                      /\ UNCHANGED <<fs, ledger, mode, result, frc>>
                 ELSE \E permitted \in BOOLEAN,
                         toSepOrder \in Orders({ToSepRule(w, ActiveSep) : w \in CfgToSepWords}),
                         termOrder \in Orders(CfgTermWords) :
                        ForwardClosure(fdn_f(fs, ledger, Unwrap(d_b), Head(todo).target,
                                             args.in_place, permitted, toSepOrder,
                                             termOrder),
                                       Unwrap(d_b).base)
  /\ UNCHANGED <<args, walk, varsT, varsS>>

(* fdn_rfs_post: the next file of the list, through the filter, into the    *)
(* loop.                                                                    *)
ReverseNext ==
  /\ mode = "rev" /\ frc = None /\ todo # <<>>
  /\ LET f == Head(todo).path
     IN  IF ~ReverseFilter(f, args.not_ignore_hidden)
         THEN /\ last' = Some([path |-> f, passed |-> FALSE])
              /\ todo' = Tail(todo)
              /\ UNCHANGED <<frc, walk>>
         ELSE /\ last' = Some([path |-> f, passed |-> TRUE])
              /\ frc' = Some(f)
              /\ walk' = [from |-> HistOf(fs, f), names |-> <<>>, ended |-> "no",
                            turn |-> 0]
              /\ UNCHANGED todo
  /\ out' = None
  /\ UNCHANGED <<fs, ledger, mode, args, result, varsT, varsS>>

(* fdn_rfs_post: one turn of the while loop.                                *)
ReverseStep ==
  /\ mode = "rev" /\ IsSome(frc)
  /\ LET f == Unwrap(frc)
         d_b == dir_base(f)
     IN  IF ~IsSome(d_b)
         THEN /\ walk' = [walk EXCEPT !.turn = 1 - @]
              /\ UNCHANGED <<fs, ledger, mode, result, todo, frc, out>>
         ELSE \E permitted \in BOOLEAN :
                LET r == fdn_rf(fs, ledger, Unwrap(d_b), args.in_place, permitted)
                    rf_base == Unwrap(r.res.v)
                    cmp == fname_compare(Unwrap(d_b).base, rf_base, CmpMode)
                    names == Append(walk.names, rf_base)
                IN  /\ fs' = r.fs
                    /\ ledger' = r.ledger
                    /\ IF ~r.res.ok
                       THEN /\ Fail(r.res.err)
                            /\ walk' = [walk EXCEPT !.ended = "error"]
                            /\ out' = None
                       ELSE IF ~IsSome(r.res.v)
                       THEN /\ frc' = None
                            /\ todo' = Tail(todo)
                            /\ walk' = [walk EXCEPT !.ended = "none"]
                            /\ out' = None
                            /\ UNCHANGED <<mode, result>>
                       ELSE IF ~cmp.ok
                       THEN /\ Fail(cmp.err)
                            /\ walk' = [walk EXCEPT !.names = names, !.ended = "error"]
                            /\ out' = None
                       ELSE /\ out' = Printed(cmp.v, args.in_place)
                            /\ IF args.reverse_chainly
                               THEN /\ frc' = Some(Join(Unwrap(d_b).dir, rf_base))
                                    /\ walk' = [walk EXCEPT !.names = names]
                                    /\ UNCHANGED todo
                               ELSE /\ frc' = None
                                    /\ todo' = Tail(todo)
                                    /\ walk' = [walk EXCEPT !.names = names,
                                                            !.ended = "single"]
                            /\ UNCHANGED <<mode, result>>
  /\ UNCHANGED <<args, last, varsT, varsS>>

(* The list is used up: the batch returns Ok(()).                           *)
BatchEnd ==
  /\ mode \in {"fwd", "rev"} /\ todo = <<>> /\ frc = None
  /\ mode' = "exit"
  /\ result' = "ok"
  /\ UNCHANGED <<fs, ledger, args, todo, frc, last, walk, out, varsT, varsS>>

(* The process ends; the filesystem and the ledger stay.                    *)
Exit ==
  /\ mode = "exit"
  /\ mode' = "idle" /\ args' = NoArgs /\ result' = "none"
  /\ last' = None /\ walk' = NoWalk /\ out' = None
  /\ UNCHANGED <<fs, ledger, todo, frc, varsT, varsS>>

Next ==
  \/ StartForward \/ StartMv \/ StartReverse
  \/ ForwardEntry \/ ReverseNext \/ ReverseStep
  \/ BatchEnd \/ Exit

Spec == Init /\ [][Next]_vars

(* The batches over two small trees: the tree with the hidden file and a    *)
(* tree of one directory.                                                   *)
RevTrees == {HiddenTree, {RootEntry, Entry(<<".", "/", "a", " ", "b", ".", "d">>, FALSE)}}

InitRev == Init /\ fs \in RevTrees

SpecRev == InitRev /\ [][Next]_vars

(* A running reverse batch runs on: fdn_rfs_post takes its next step        *)
(* whenever it has one.                                                     *)
SpecRevFair ==
  SpecRev /\ WF_vars(ReverseNext) /\ WF_vars(ReverseStep) /\ WF_vars(BatchEnd)

----------------------------------------------------------------------------
(* Properties of the batches, checked under Spec.                           *)

(* The bare name a record is keyed by and the bare name it holds.           *)
NewOf(rd) == rd.hashed_current_name.digest
OldOf(rd) == from_hex(rd.encrypted_pre_name.hex)

(* C1: for every recorded forward rename old -> new whose record is still   *)
(* in the ledger, fdn_rf on a DirBase whose base is new returns Some(old),  *)
(* also when several records are keyed by the same new name.                *)
C1_RoundTrip ==
  \A i \in DOMAIN ledger :
    fdn_rf(fs, ledger, [dir |-> Root, base |-> NewOf(ledger[i])], FALSE, TRUE).res
      = Ok(Some(OldOf(ledger[i])))

(* The round trip for the records whose key no later record shares.         *)
C1_LastPerKey ==
  \A i \in DOMAIN ledger :
    (\A j \in DOMAIN ledger : j > i => NewOf(ledger[j]) # NewOf(ledger[i])) =>
      fdn_rf(fs, ledger, [dir |-> Root, base |-> NewOf(ledger[i])], FALSE, TRUE).res
        = Ok(Some(OldOf(ledger[i])))

(* A chain walk in apply mode of an entry whose applied forward renames     *)
(* were n0 -> n1 -> n2 has come to its end, and not by a refused rename.    *)
ChainWalkEnded ==
  /\ args.in_place /\ args.reverse_chainly
  /\ Len(walk.from) = 3
  /\ walk.ended \in {"none", "error"}
  /\ result # "RenameError"

(* C2: chain reversal in apply mode from n2 restores n1, then n0, then the  *)
(* lookup for n0 returns none and the walk stops with the entry named n0.   *)
C2_ChainRestores ==
  ChainWalkEnded =>
    /\ walk.ended = "none"
    /\ walk.names = <<walk.from[2], walk.from[1]>>
    /\ Exists(fs, Join(Unwrap(Parent(Unwrap(last).path)), walk.from[1]))

(* The same for the walks in which the presenter accepted every name.      *)
C2_ChainRestoresWhenPrinted ==
  (ChainWalkEnded /\ result # "OptionIsNone") =>
    /\ walk.ended = "none"
    /\ walk.names = <<walk.from[2], walk.from[1]>>

(* C3: a step of a batch that runs with in_place off renames nothing and    *)
(* neither inserts nor deletes a record.                                    *)
C3_DryRunChangesNothing ==
  [][(mode \in {"fwd", "rev"} /\ ~args.in_place) => (fs' = fs /\ ledger' = ledger)]_vars

(* A dry reverse run has found a record and printed the previous name.      *)
C3_Witness ==
  /\ mode = "rev" /\ ~args.in_place /\ IsSome(out) /\ ledger # <<>>

(* The entries of the running batch that it has not started on.             *)
Pending == IF mode = "rev" /\ IsSome(frc) THEN Tail(todo) ELSE todo

C7_HiddenSkippedUnlessIncluded ==
  IsSome(last) =>
    (Unwrap(last).passed <=>
       (~is_hidden(Unwrap(last).path) \/ args.not_ignore_hidden))

(* The same statement for the reverse batch alone.                          *)
C7_ReverseBatchOnly == mode = "rev" => C7_HiddenSkippedUnlessIncluded

(* C8: fname_compare returns a rendered pair for names with and without an  *)
(* extension; no batch is stopped by an error for a name that has none.     *)
C8_AcceptsEveryPair == result # "OptionIsNone"

(* C9: when the rename of a call of fdn_f or fdn_rf fails, the error is     *)
(* returned, no record is inserted or deleted and nothing is renamed.       *)
C9_LedgerOnlyAfterRename ==
  [][(mode \in {"fwd", "rev"} /\ result' = "RenameError")
       => (ledger' = ledger /\ fs' = fs)]_vars

(* A reverse rename in apply mode has failed while its record is there.     *)
C9_Witness ==
  /\ result = "RenameError" /\ args.in_place /\ walk.ended = "error"
  /\ ledger # <<>>
(* C12: the reverse batch always terminates: the loop of every entry it has *)
(* started on finishes (the batch moves to the next entry or ends), for     *)
(* every list, ledger, in_place and reverse_chainly, also for a path for    *)
(* which dir_base returns None.                                             *)
C12_ReverseLoopEnds == (mode = "rev" /\ IsSome(frc)) ~> (frc = None)

(* Every turn of the loop has a DirBase to work on.                         *)
C12_EveryTurnHasDirBase ==
  (mode = "rev" /\ IsSome(frc)) => IsSome(dir_base(Unwrap(frc)))

====
